---------------------------- MODULE Spec2Model ----------------------------
(***************************************************************************)
(* Model of scripts/generate_site.py: the static landing-page generator.   *)
(*                                                                         *)
(* Representation.  A Python str is a sequence of tokens.  A token is      *)
(* either one character of user-supplied text (a one-character string) or  *)
(* one chunk of markup that a template of the source writes literally (a   *)
(* string of several characters, layout whitespace left out).  String      *)
(* concatenation is \o.  Markup chunks are never one character long, so a  *)
(* one-character token  <  >  &  "  '  in an output is always a raw        *)
(* character that came from a config value.  Characters outside ASCII are  *)
(* written by their code point ("U+00E9" is e-acute).                      *)
(*                                                                         *)
(* A Python dict is a function whose DOMAIN is its key set, a list is a    *)
(* sequence.  The empty str, the empty dict, the empty list and None are   *)
(* all falsy and all written << >>.                                        *)
(***************************************************************************)
EXTENDS Integers, Sequences, FiniteSets, TLC

VARIABLES
    pc,            \* position of generate_site
    config,        \* the dict read_config returned
    disk,          \* what exists before the run: [logo, css, index : BOOLEAN]
    slug,          \* generate_site: slug
    dirs,          \* directories created so far
    files,         \* output files: path -> content
    logo_path,     \* generate_site: logo_path (<< >> is None)
    sections,      \* generate_site: sections, an OrderedDict as a sequence of [key, html]
    nav_sections,  \* generate_site: nav_sections
    footer_html,   \* generate_site: footer_html
    document,      \* generate_site: document
    fs_log,        \* the file-system writes of the run, in order
    error,         \* the exception that ended the run, "" if none
    result,        \* the value generate_site returned
    call           \* one call of slugify: [value, default, done, result]

vars == <<pc, config, disk, slug, dirs, files, logo_path, sections, nav_sections,
          footer_html, document, fs_log, error, result, call>>

-----------------------------------------------------------------------------
(* Bounds of the model. *)

\* longest slugify input drawn (besides the spec's example string)
MaxSlugLen == 2
\* longest text drawn for a config field
MaxTextLen == 2
\* longest list drawn for a list-typed config field
MaxItems == 2

-----------------------------------------------------------------------------
(* dict access and truthiness *)

\* d.get(k, default)
Get(d, k, default) == IF k \in DOMAIN d THEN d[k] ELSE default

\* d.get(k): None when the key is missing
GetOrNone(d, k) == Get(d, k, << >>)

\* bool(x) of a str, dict, list or None
Truthy(x) == x # << >>

\* x or y
Or(x, y) == IF Truthy(x) THEN x ELSE y

\* "".join(parts)
RECURSIVE Join(_)
Join(parts) ==
    IF parts = << >> THEN << >> ELSE Head(parts) \o Join(Tail(parts))

-----------------------------------------------------------------------------
(* str methods and html.escape *)

UpperLetters ==
    <<"A", "B", "C", "D", "E", "F", "G", "H", "I", "J", "K", "L", "M",
      "N", "O", "P", "Q", "R", "S", "T", "U", "V", "W", "X", "Y", "Z">>

LowerLetters ==
    <<"a", "b", "c", "d", "e", "f", "g", "h", "i", "j", "k", "l", "m",
      "n", "o", "p", "q", "r", "s", "t", "u", "v", "w", "x", "y", "z">>

Digits == {"0", "1", "2", "3", "4", "5", "6", "7", "8", "9"}

\* the characters str.strip() removes
Whitespace == {" ", "\n", "\t"}

\* U+212A KELVIN SIGN, a letter outside ASCII whose lower case is ASCII k
KelvinSign == "U+212A"
\* U+00E9, e-acute, and its upper case U+00C9
EAcute == "U+00E9"
EAcuteUpper == "U+00C9"

\* str.lower() on one character
LowerChar(c) ==
    IF \E i \in DOMAIN UpperLetters : UpperLetters[i] = c
    THEN LowerLetters[CHOOSE i \in DOMAIN UpperLetters : UpperLetters[i] = c]
    ELSE IF c = KelvinSign THEN "k"
    ELSE IF c = EAcuteUpper THEN EAcute
    ELSE c

\* str.lower()
Lower(s) == [i \in DOMAIN s |-> LowerChar(s[i])]

\* str.lstrip(chars)
RECURSIVE LStripChars(_, _)
LStripChars(s, chars) ==
    IF s # << >> /\ Head(s) \in chars THEN LStripChars(Tail(s), chars) ELSE s

\* str.rstrip(chars)
RECURSIVE RStripChars(_, _)
RStripChars(s, chars) ==
    IF s # << >> /\ s[Len(s)] \in chars
    THEN RStripChars(SubSeq(s, 1, Len(s) - 1), chars)
    ELSE s

\* str.strip(chars)
StripChars(s, chars) == RStripChars(LStripChars(s, chars), chars)

\* str.strip()
Strip(s) == StripChars(s, Whitespace)

\* html.escape on one character (quote=True)
EscapeChar(c) ==
    CASE c = "&" -> "&amp;"
      [] c = "<" -> "&lt;"
      [] c = ">" -> "&gt;"
      [] c = "\"" -> "&quot;"
      [] c = "'" -> "&#x27;"
      [] OTHER -> c

\* html.escape(s)
escape(s) == [i \in DOMAIN s |-> EscapeChar(s[i])]

\* the characters html.escape replaces
SpecialChars == {"&", "<", ">", "\"", "'"}

-----------------------------------------------------------------------------
(* slugify, lines 20-25 *)

\* the class [a-z0-9] of the regular expression
IsSlugChar(c) == (\E i \in DOMAIN LowerLetters : LowerLetters[i] = c) \/ c \in Digits

\* re.sub(r"[^a-z0-9]+", "-", value)
RECURSIVE SubNonAlnum(_)
SubNonAlnum(s) ==
    IF s = << >> THEN << >>
    ELSE IF IsSlugChar(Head(s)) THEN <<Head(s)>> \o SubNonAlnum(Tail(s))
    ELSE <<"-">> \o SubNonAlnum(LStripChars(Tail(s), {c \in {s[i] : i \in DOMAIN s} : ~IsSlugChar(c)}))

\* re.sub(r"-+", "-", value)
RECURSIVE SubHyphens(_)
SubHyphens(s) ==
    IF s = << >> THEN << >>
    ELSE IF Head(s) = "-" THEN <<"-">> \o SubHyphens(LStripChars(Tail(s), {"-"}))
    ELSE <<Head(s)>> \o SubHyphens(Tail(s))

\* slugify with the hyphen runs left as long as they are
slugify_KeepRuns(value, default) ==
    LET v == Lower(Strip(value))
    IN  Or(StripChars([i \in DOMAIN v |-> IF IsSlugChar(v[i]) THEN v[i] ELSE "-"], {"-"}),
           default)

\* slugify without the final trim of hyphens
slugify_NoTrim(value, default) ==
    Or(SubHyphens(SubNonAlnum(Lower(Strip(value)))), default)

slugify(value, default) ==
    Or(StripChars(SubHyphens(SubNonAlnum(Lower(Strip(value)))), {"-"}), default)

\* the default of slugify's keyword argument
DefaultSlug == <<"s", "i", "t", "e">>

-----------------------------------------------------------------------------
(* html_paragraphs and html_list, lines 55-69 *)

\* text.split("\n\n"); cur is the block being read
RECURSIVE SplitBlocks(_, _)
SplitBlocks(s, cur) ==
    IF s = << >> THEN <<cur>>
    ELSE IF Len(s) >= 2 /\ s[1] = "\n" /\ s[2] = "\n"
    THEN <<cur>> \o SplitBlocks(SubSeq(s, 3, Len(s)), << >>)
    ELSE SplitBlocks(Tail(s), Append(cur, Head(s)))

\* escape(block).replace("\n", "<br>")
EscapeBreaks(block) ==
    [i \in DOMAIN block |-> IF block[i] = "\n" THEN "<br>" ELSE EscapeChar(block[i])]

html_paragraphs(text) ==
    LET blocks == SplitBlocks(text, << >>)
    IN  Join([i \in DOMAIN blocks |->
                IF Strip(blocks[i]) = << >> THEN << >>
                ELSE <<"<p>">> \o EscapeBreaks(Strip(blocks[i])) \o <<"</p>">>])

\* f"<ul{class_attr}>", cls a markup chunk or ""
UlOpen(cls) == IF cls # "" THEN <<"<ul class=\"", cls, "\">">> ELSE <<"<ul>">>

\* the <li> elements of html_list: blank items are skipped
ListItems(items) ==
    Join([i \in DOMAIN items |->
            IF Truthy(Strip(items[i]))
            THEN <<"<li>">> \o escape(items[i]) \o <<"</li>">>
            ELSE << >>])

html_list(items, cls) == UlOpen(cls) \o ListItems(items) \o <<"</ul>">>

-----------------------------------------------------------------------------
(* build_nav, lines 72-91 *)

\* one link of build_nav
NavLink(section) ==
    <<"<a href=\"#">> \o escape(section.id) \o <<"\">">>
        \o escape(section.label) \o <<"</a>">>

build_nav(nav, site_name, logo) ==
    LET links == Join([i \in DOMAIN nav |-> NavLink(nav[i])])
        logo_html ==
            IF Truthy(logo)
            THEN <<"<img src=\"">> \o escape(logo) \o <<"\" alt=\"">>
                     \o escape(site_name) \o <<"\" class=\"brand-logo\">">>
            ELSE <<"<span class=\"brand-name\">">> \o escape(site_name) \o <<"</span>">>
    IN  <<"<nav class=\"top-nav\">", "<div class=\"brand\">">> \o logo_html
            \o <<"</div>", "<div class=\"nav-links\">">> \o links \o <<"</div>", "</nav>">>

-----------------------------------------------------------------------------
(* the section builders, lines 94-372 *)

\* a call-to-action link, written only when text and link are both truthy
Button(cta, cls) ==
    IF Truthy(GetOrNone(cta, "text")) /\ Truthy(GetOrNone(cta, "link"))
    THEN <<"<a class=\"btn ", cls, "\" href=\"">> \o escape(cta["link"])
             \o <<"\" target=\"_blank\" rel=\"noopener\">">> \o escape(cta["text"]) \o <<"</a>">>
    ELSE << >>

\* the opening tag of a section, which carries its anchor id
SectionOpen(id, cls) == <<"<section ", "id=\"", id, "\" class=\"section ", cls, "\">">>

\* <div class="section-header"> up to the title's </h2>
SectionHeader(eyebrow, title) ==
    <<"<div class=\"section-header\">", "<span class=\"eyebrow\">", eyebrow, "</span>", "<h2>">>
        \o title \o <<"</h2>">>

build_hero(data, site, logo) ==
    LET headline == escape(Get(data, "headline", Get(site, "tagline", Get(site, "name", << >>))))
        subheadline == escape(Get(data, "subheadline", << >>))
        primary_cta == Or(Get(data, "primary_cta", << >>), << >>)
        secondary_cta == Or(Get(data, "secondary_cta", << >>), << >>)
        bullet_points == Or(GetOrNone(data, "bullet_points"), << >>)
        bullet_html ==
            IF Truthy(bullet_points) THEN html_list(bullet_points, "hero-bullets") ELSE << >>
        hero_logo ==
            IF Truthy(logo)
            THEN <<"<img src=\"">> \o escape(logo) \o <<"\" alt=\"">>
                     \o escape(Get(site, "name", << >>)) \o <<"\" class=\"hero-logo\">">>
            ELSE << >>
        button_html == Button(primary_cta, "primary") \o Button(secondary_cta, "secondary")
    IN  <<"<header class=\"hero\" ", "id=\"", "inicio", "\">", "<div class=\"hero-content\">">>
            \o hero_logo
            \o <<"<h1>">> \o headline \o <<"</h1>">>
            \o <<"<p class=\"subheadline\">">> \o subheadline \o <<"</p>">>
            \o <<"<div class=\"hero-actions\">">> \o button_html \o <<"</div>">>
            \o bullet_html
            \o <<"</div>", "</header>">>

\* build_about without the guard on an empty mapping
build_about_NoGuard(data) ==
    SectionOpen("sobre", "about")
        \o SectionHeader("Quem Somos", escape(Get(data, "title", <<"Sobre">>)))
        \o <<"</div>", "<div class=\"section-body\">", "</div>", "</section>">>

build_about(data) ==
    IF ~Truthy(data) THEN << >>
    ELSE
    LET title == escape(Get(data, "title", <<"Sobre">>))
        content == Get(data, "content", << >>)
        highlights == Or(GetOrNone(data, "highlights"), << >>)
        highlights_html ==
            IF Truthy(highlights) THEN html_list(highlights, "highlight-list") ELSE << >>
    IN  SectionOpen("sobre", "about")
            \o SectionHeader("Quem Somos", title) \o <<"</div>">>
            \o <<"<div class=\"section-body\">">>
            \o html_paragraphs(content) \o highlights_html
            \o <<"</div>", "</section>">>

\* one card of build_services
ServiceCard(item) ==
    LET name == escape(Get(item, "name", << >>))
        summary == escape(Get(item, "description", << >>))
        icon == IF Truthy(GetOrNone(item, "icon")) THEN escape(Get(item, "icon", << >>)) ELSE << >>
        icon_html ==
            IF Truthy(icon) THEN <<"<div class=\"service-icon\">">> \o icon \o <<"</div>">>
            ELSE << >>
    IN  <<"<article class=\"service-card\">">> \o icon_html
            \o <<"<h3>">> \o name \o <<"</h3>">>
            \o <<"<p>">> \o summary \o <<"</p>", "</article>">>

build_services(data) ==
    IF ~Truthy(data) THEN << >>
    ELSE
    LET title == escape(Get(data, "title", <<"Servi(U+00E7)os">>))
        description == escape(Get(data, "description", << >>))
        items == Or(GetOrNone(data, "items"), << >>)
        cards_html == Join([i \in DOMAIN items |-> ServiceCard(items[i])])
    IN  SectionOpen("servicos", "services")
            \o SectionHeader("O que fazemos", title)
            \o <<"<p>">> \o description \o <<"</p>", "</div>">>
            \o <<"<div class=\"service-grid\">">> \o cards_html \o <<"</div>", "</section>">>

\* one card of build_testimonials
TestimonialCard(item) ==
    LET quote == escape(Get(item, "quote", << >>))
        name == escape(Get(item, "name", << >>))
        role == escape(Get(item, "role", << >>))
    IN  <<"<article class=\"testimonial\">", "<p class=\"quote\">(U+201C)">> \o quote
            \o <<"(U+201D)</p>", "<p class=\"author\">">> \o name
            \o <<"<span>">> \o role \o <<"</span></p>", "</article>">>

build_testimonials(data) ==
    IF ~Truthy(data) THEN << >>
    ELSE
    LET title == escape(Get(data, "title", <<"Clientes satisfeitos">>))
        items == Or(GetOrNone(data, "items"), << >>)
        cards_html == Join([i \in DOMAIN items |-> TestimonialCard(items[i])])
    IN  SectionOpen("depoimentos", "testimonials")
            \o SectionHeader("Depoimentos", title) \o <<"</div>">>
            \o <<"<div class=\"testimonial-grid\">">> \o cards_html \o <<"</div>", "</section>">>

build_cta(data) ==
    IF ~Truthy(data) THEN << >>
    ELSE
    LET headline == escape(Get(data, "headline", <<"Pronto para come(U+00E7)ar?">>))
        subheadline == escape(Get(data, "subheadline", <<"Vamos conversar sobre seu projeto.">>))
        button == Or(GetOrNone(data, "button"), << >>)
        button_html == Button(button, "accent")
    IN  SectionOpen("cta", "cta")
            \o <<"<div class=\"cta-box\">", "<h2>">> \o headline \o <<"</h2>">>
            \o <<"<p>">> \o subheadline \o <<"</p>">>
            \o button_html \o <<"</div>", "</section>">>

\* one disclosure widget of build_faq
FaqItem(item) ==
    LET question == escape(Get(item, "question", << >>))
        answer == html_paragraphs(Get(item, "answer", << >>))
    IN  <<"<details class=\"faq-item\">", "<summary>">> \o question
            \o <<"</summary>", "<div class=\"faq-answer\">">> \o answer
            \o <<"</div>", "</details>">>

build_faq(data) ==
    IF ~Truthy(data) THEN << >>
    ELSE
    LET title == escape(Get(data, "title", <<"Perguntas Frequentes">>))
        items == Or(GetOrNone(data, "items"), << >>)
        accordions_html == Join([i \in DOMAIN items |-> FaqItem(items[i])])
    IN  SectionOpen("faq", "faq")
            \o SectionHeader("D(U+00FA)vidas", title) \o <<"</div>">>
            \o <<"<div class=\"faq-list\">">> \o accordions_html \o <<"</div>", "</section>">>

\* escape(data.get(k, "")) if data.get(k) else ""
EscapedIfSet(data, k) ==
    IF Truthy(GetOrNone(data, k)) THEN escape(Get(data, k, << >>)) ELSE << >>

\* one line of the contact list, written only when its value is truthy
ContactLine(label, value) ==
    IF Truthy(value)
    THEN <<"<li><strong>", label, ":</strong> ">> \o value \o <<"</li>">>
    ELSE << >>

\* one link of the contact section's social list
SocialLink(item) ==
    LET platform == escape(Get(item, "platform", << >>))
        link == GetOrNone(item, "url")
    IN  IF ~Truthy(platform) \/ ~Truthy(link) THEN << >>
        ELSE <<"<a href=\"">> \o escape(link)
                 \o <<"\" target=\"_blank\" rel=\"noopener\">">> \o platform \o <<"</a>">>

build_contact(data) ==
    IF ~Truthy(data) THEN << >>
    ELSE
    LET title == escape(Get(data, "title", <<"Fale Conosco">>))
        description == escape(Get(data, "description", << >>))
        phone == EscapedIfSet(data, "phone")
        whatsapp == EscapedIfSet(data, "whatsapp")
        email == EscapedIfSet(data, "email")
        address == EscapedIfSet(data, "address")
        maps_link == GetOrNone(data, "maps_link")
        social == Or(GetOrNone(data, "social"), << >>)
        hours == Or(GetOrNone(data, "hours"), << >>)
        phone_html ==
            IF Truthy(phone) THEN <<"<a href=\"tel:">> \o phone \o <<"\">">> \o phone \o <<"</a>">>
            ELSE << >>
        whatsapp_html ==
            IF Truthy(whatsapp)
            THEN <<"<a href=\"https://wa.me/">> \o whatsapp
                     \o <<"\" target=\"_blank\" rel=\"noopener\">WhatsApp</a>">>
            ELSE << >>
        email_html ==
            IF Truthy(email) THEN <<"<a href=\"mailto:">> \o email \o <<"\">">> \o email \o <<"</a>">>
            ELSE << >>
        contact_lines ==
            ContactLine("Telefone", phone_html) \o ContactLine("WhatsApp", whatsapp_html)
                \o ContactLine("E-mail", email_html) \o ContactLine("Endere(U+00E7)o", address)
        hours_html ==
            IF Truthy(hours)
            THEN <<"<div class=\"contact-hours\">">> \o html_list(hours, "") \o <<"</div>">>
            ELSE << >>
        social_links == Join([i \in DOMAIN social |-> SocialLink(social[i])])
        social_html ==
            IF Truthy(social_links)
            THEN <<"<div class=\"contact-social\">">> \o social_links \o <<"</div>">>
            ELSE << >>
        map_embed ==
            IF Truthy(maps_link)
            THEN <<"<iframe src=\"">> \o escape(maps_link)
                     \o <<"\" loading=\"lazy\" allowfullscreen referrerpolicy=\"no-referrer-when-downgrade\"></iframe>">>
            ELSE << >>
    IN  SectionOpen("contato", "contact")
            \o SectionHeader("Contato", title)
            \o <<"<p>">> \o description \o <<"</p>", "</div>">>
            \o <<"<div class=\"contact-grid\">", "<div class=\"contact-card\">">>
            \o <<"<ul class=\"contact-list\">">> \o contact_lines \o <<"</ul>">>
            \o hours_html \o social_html \o <<"</div>">>
            \o <<"<div class=\"contact-map\">">> \o map_embed \o <<"</div>", "</div>", "</section>">>

\* one link of build_footer, written only when url and label are both truthy
FooterLink(link) ==
    IF Truthy(GetOrNone(link, "url")) /\ Truthy(GetOrNone(link, "label"))
    THEN <<"<a href=\"">> \o escape(Get(link, "url", <<"#">>))
             \o <<"\" target=\"_blank\" rel=\"noopener\">">>
             \o escape(Get(link, "label", << >>)) \o <<"</a>">>
    ELSE << >>

build_footer(data, site) ==
    LET text == IF Truthy(data) THEN GetOrNone(data, "text") ELSE << >>
        default_text ==
            <<"(U+00A9) ">> \o escape(Get(site, "name", <<"Sua Empresa">>))
                \o <<". Todos os direitos reservados.">>
        footer_text == IF Truthy(text) THEN escape(text) ELSE default_text
        links == Or(IF Truthy(data) THEN GetOrNone(data, "links") ELSE << >>, << >>)
        link_html == Join([i \in DOMAIN links |-> FooterLink(links[i])])
    IN  <<"<footer class=\"site-footer\">", "<div class=\"footer-text\">">> \o footer_text
            \o <<"</div>", "<div class=\"footer-links\">">> \o link_html
            \o <<"</div>", "</footer>">>

-----------------------------------------------------------------------------
(* build_document, lines 375-430 *)

\* line 386: the document title
document_title(cfg) ==
    LET site == Get(cfg, "site", << >>)
        seo == Get(cfg, "seo", << >>)
    IN  Or(Or(GetOrNone(seo, "title"), GetOrNone(site, "name")),
           <<"Site de Demonstra(U+00E7)(U+00E3)o">>)

\* line 387: the meta description
document_description(cfg) ==
    LET seo == Get(cfg, "seo", << >>)
    IN  Or(Or(GetOrNone(seo, "description"), GetOrNone(cfg, "tagline")),
           <<"Cria(U+00E7)(U+00E3)o de sites profissionais.">>)

\* lines 412-420: the inline style block with the five theme colours
StyleBlock(site) ==
    <<"<style>", ":root {", "--color-primary: ">> \o Get(site, "primary_color", <<"#1b6ef3">>)
        \o <<"; --color-secondary: ">> \o Get(site, "secondary_color", <<"#123a9a">>)
        \o <<"; --color-accent: ">> \o Get(site, "accent_color", <<"#f97316">>)
        \o <<"; --color-background: ">> \o Get(site, "background_color", <<"#f7f9fc">>)
        \o <<"; --color-text: ">> \o Get(site, "text_color", <<"#1f2933">>)
        \o <<"; }", "</style>">>

\* the values joined last key first
SectionValues_Reversed(generated_sections) ==
    Join([i \in DOMAIN generated_sections |->
            generated_sections[Len(generated_sections) + 1 - i].html])

\* "".join(generated_sections.values())
SectionValues(generated_sections) ==
    Join([i \in DOMAIN generated_sections |-> generated_sections[i].html])

build_document(cfg, generated_sections, nav, logo, footer) ==
    LET site == Get(cfg, "site", << >>)
        nav_html == build_nav(nav, Get(site, "name", <<"Sua Empresa">>), logo)
        body_sections == SectionValues(generated_sections)
    IN  <<"<!DOCTYPE html>", "<html lang=\"pt-BR\">", "<head>", "<meta charset=\"utf-8\">",
          "<meta name=\"viewport\" content=\"width=device-width, initial-scale=1\">",
          "<title>">> \o escape(document_title(cfg))
            \o <<"</title>", "<meta name=\"description\" content=\"">>
            \o escape(document_description(cfg))
            \o <<"\">", "<link rel=\"preconnect\" href=\"https://fonts.googleapis.com\">",
                 "<link rel=\"preconnect\" href=\"https://fonts.gstatic.com\" crossorigin>",
                 "<link href=\"https://fonts.googleapis.com/css2?family=Poppins:wght@300;400;500;600;700&display=swap\" rel=\"stylesheet\">",
                 "<link rel=\"stylesheet\" href=\"style.css\">">>
            \o StyleBlock(site)
            \o <<"</head>", "<body>">> \o nav_html
            \o <<"<main>">> \o body_sections \o <<"</main>">>
            \o footer \o <<"</body>", "</html>">>

-----------------------------------------------------------------------------
(* the file system and copy_logo, lines 14-17, 28-30 and 40-52 *)

\* --output, by default OUTPUT_ROOT = ROOT/sites; a path is a sequence of names
OutputDir == <<"sites">>

\* ASSETS_DIR_NAME
AssetsDirName == <<"assets">>

\* output_dir / slug
SiteOutput(s) == <<OutputDir, s>>

\* site_output / "index.html"
IndexPath(s) == <<OutputDir, s, <<"index.html">>>>

\* site_output / "style.css"
StylePath(s) == <<OutputDir, s, <<"style.css">>>>

\* Path.name: what follows the last "/"
RECURSIVE BaseName(_)
BaseName(p) ==
    IF \E i \in DOMAIN p : p[i] = "/"
    THEN BaseName(SubSeq(p, (CHOOSE i \in DOMAIN p : p[i] = "/") + 1, Len(p)))
    ELSE p

\* assets_dir / src.name
LogoDestination(s, logo) == <<OutputDir, s, AssetsDirName, BaseName(logo)>>

\* the value copy_logo returns after a copy: f"{ASSETS_DIR_NAME}/{src.name}"
LogoHref(logo) == <<"assets/">> \o BaseName(logo)

\* the bytes of a copied file and of an index.html left by an earlier run
FileBytes(name) == <<"bytes of ", name>>
OldDocument == <<"<!DOCTYPE html>", "an earlier document">>

\* files with path p holding content c
WriteFile(fs, p, c) == [q \in DOMAIN fs \cup {p} |-> IF q = p THEN c ELSE fs[q]]

-----------------------------------------------------------------------------
(* generate_site, lines 433-495 *)

\* line 436 with the two explicit slugs consulted in the other order
ResolveSlug_SiteFirst(cfg) ==
    LET site == Get(cfg, "site", << >>)
    IN  Or(Or(GetOrNone(site, "slug"), GetOrNone(cfg, "slug")),
           slugify(Get(site, "name", << >>), DefaultSlug))

\* line 436
ResolveSlug(cfg) ==
    LET site == Get(cfg, "site", << >>)
    IN  Or(Or(GetOrNone(cfg, "slug"), GetOrNone(site, "slug")),
           slugify(Get(site, "name", << >>), DefaultSlug))

\* config.get(key) or {}
SectionConfig(key) == Or(GetOrNone(config, key), << >>)

\* sections[key] = html on an OrderedDict: a new key goes last
OrderedDictSet(od, key, html) ==
    IF \E i \in DOMAIN od : od[i].key = key
    THEN [i \in DOMAIN od |-> IF od[i].key = key THEN [key |-> key, html |-> html] ELSE od[i]]
    ELSE Append(od, [key |-> key, html |-> html])

\* lines 434-437
GenerateSlug ==
    /\ pc = "start"
    /\ slug' = ResolveSlug(config)
    /\ pc' = "ensure"
    /\ UNCHANGED <<config, disk, dirs, files, logo_path, sections, nav_sections,
                   footer_html, document, fs_log, error, result, call>>

\* line 438: ensure_output_dir(site_output)
EnsureOutputDir ==
    /\ pc = "ensure"
    /\ dirs' = dirs \cup {SiteOutput(slug), Append(SiteOutput(slug), AssetsDirName)}
    /\ fs_log' = Append(fs_log, "mkdir")
    /\ pc' = "logo"
    /\ UNCHANGED <<config, disk, slug, files, logo_path, sections, nav_sections,
                   footer_html, document, error, result, call>>

\* line 440 with a logo whose file is missing treated as no logo
CopyLogo_Lenient ==
    /\ pc = "logo"
    /\ LET logo == GetOrNone(Get(config, "site", << >>), "logo")
       IN  IF ~Truthy(logo) \/ ~disk.logo
           THEN /\ logo_path' = << >>
                /\ UNCHANGED <<files, fs_log>>
           ELSE /\ files' = WriteFile(files, LogoDestination(slug, logo), FileBytes("logo"))
                /\ fs_log' = Append(fs_log, "copy_logo")
                /\ logo_path' = LogoHref(logo)
    /\ pc' = "hero"
    /\ UNCHANGED <<config, disk, slug, dirs, sections, nav_sections,
                   footer_html, document, error, result, call>>

\* line 440: logo_path = copy_logo(site.get("logo"), site_output)
CopyLogo ==
    /\ pc = "logo"
    /\ LET logo == GetOrNone(Get(config, "site", << >>), "logo")
       IN  \/ /\ ~Truthy(logo)
              /\ logo_path' = << >>
              /\ pc' = "hero"
              /\ UNCHANGED <<dirs, files, fs_log, error>>
           \/ /\ Truthy(logo)
              /\ ~disk.logo
              /\ error' = "FileNotFoundError: Logo n(U+00E3)o encontrada"
              /\ pc' = "failed"
              /\ UNCHANGED <<dirs, files, fs_log, logo_path>>
           \/ /\ Truthy(logo)
              /\ disk.logo
              /\ dirs' = dirs \cup {Append(SiteOutput(slug), AssetsDirName)}
              /\ files' = WriteFile(files, LogoDestination(slug, logo), FileBytes("logo"))
              /\ fs_log' = Append(fs_log, "copy_logo")
              /\ logo_path' = LogoHref(logo)
              /\ pc' = "hero"
              /\ UNCHANGED error
    /\ UNCHANGED <<config, disk, slug, sections, nav_sections,
                   footer_html, document, result, call>>

\* lines 442-446
GenerateHero ==
    /\ pc = "hero"
    /\ sections' = OrderedDictSet(<< >>, "hero",
                       build_hero(SectionConfig("hero"), Get(config, "site", << >>), logo_path))
    /\ nav_sections' = <<[id |-> <<"inicio">>, label |-> <<"In(U+00ED)cio">>]>>
    /\ pc' = "about"
    /\ UNCHANGED <<config, disk, slug, dirs, files, logo_path,
                   footer_html, document, fs_log, error, result, call>>

\* an optional section's step: the fragment and its nav entry are added when
\* the fragment is not empty
AddSection(at, next, key, html, id, label) ==
    /\ pc = at
    /\ IF Truthy(html)
       THEN /\ sections' = OrderedDictSet(sections, key, html)
            /\ nav_sections' = Append(nav_sections, [id |-> <<id>>, label |-> <<label>>])
       ELSE UNCHANGED <<sections, nav_sections>>
    /\ pc' = next
    /\ UNCHANGED <<config, disk, slug, dirs, files, logo_path,
                   footer_html, document, fs_log, error, result, call>>

\* the services step with the nav entry added whatever the fragment is
GenerateServices_NavAlways ==
    /\ pc = "services"
    /\ IF Truthy(build_services(SectionConfig("services")))
       THEN sections' = OrderedDictSet(sections, "services", build_services(SectionConfig("services")))
       ELSE UNCHANGED sections
    /\ nav_sections' = Append(nav_sections, [id |-> <<"servicos">>, label |-> <<"Servi(U+00E7)os">>])
    /\ pc' = "testimonials"
    /\ UNCHANGED <<config, disk, slug, dirs, files, logo_path,
                   footer_html, document, fs_log, error, result, call>>

\* lines 448-451
GenerateAbout ==
    AddSection("about", "services", "about", build_about(SectionConfig("about")),
               "sobre", "Sobre")

\* lines 453-456
GenerateServices ==
    AddSection("services", "testimonials", "services", build_services(SectionConfig("services")),
               "servicos", "Servi(U+00E7)os")

\* lines 458-461
GenerateTestimonials ==
    AddSection("testimonials", "faq", "testimonials",
               build_testimonials(SectionConfig("testimonials")), "depoimentos", "Depoimentos")

\* lines 463-466
GenerateFaq ==
    AddSection("faq", "cta", "faq", build_faq(SectionConfig("faq")), "faq", "FAQ")

\* lines 468-471
GenerateCta ==
    AddSection("cta", "contact", "cta", build_cta(SectionConfig("cta")),
               "cta", "Come(U+00E7)ar")

\* lines 473-476
GenerateContact ==
    AddSection("contact", "footer", "contact", build_contact(SectionConfig("contact")),
               "contato", "Contato")

\* line 478
GenerateFooter ==
    /\ pc = "footer"
    /\ footer_html' = build_footer(SectionConfig("footer"), Get(config, "site", << >>))
    /\ pc' = "document"
    /\ UNCHANGED <<config, disk, slug, dirs, files, logo_path, sections, nav_sections,
                   document, fs_log, error, result, call>>

\* lines 480-486
GenerateDocument ==
    /\ pc = "document"
    /\ document' = build_document(config, sections, nav_sections, logo_path, footer_html)
    /\ pc' = "write"
    /\ UNCHANGED <<config, disk, slug, dirs, files, logo_path, sections, nav_sections,
                   footer_html, fs_log, error, result, call>>

\* lines 488-489
WriteIndex ==
    /\ pc = "write"
    /\ files' = WriteFile(files, IndexPath(slug), document)
    /\ fs_log' = Append(fs_log, "write_index")
    /\ pc' = "css"
    /\ UNCHANGED <<config, disk, slug, dirs, logo_path, sections, nav_sections,
                   footer_html, document, error, result, call>>

\* lines 491-495
CopyStylesheet ==
    /\ pc = "css"
    /\ \/ /\ disk.css
          /\ files' = WriteFile(files, StylePath(slug), FileBytes("style.css"))
          /\ fs_log' = Append(fs_log, "copy_css")
       \/ /\ ~disk.css
          /\ UNCHANGED <<files, fs_log>>
    /\ result' = IndexPath(slug)
    /\ pc' = "done"
    /\ UNCHANGED <<config, disk, slug, dirs, logo_path, sections, nav_sections,
                   footer_html, document, error, call>>

\* one call of slugify
SlugifyCall ==
    /\ pc = "idle"
    /\ ~call.done
    /\ call' = [call EXCEPT !.done = TRUE, !.result = slugify(call.value, call.default)]
    /\ UNCHANGED <<pc, config, disk, slug, dirs, files, logo_path, sections, nav_sections,
                   footer_html, document, fs_log, error, result>>

-----------------------------------------------------------------------------
(* The configurations and the disks a run starts from. *)

\* the strings over an alphabet, up to a length
Texts(alphabet, n) == UNION {[1..k -> alphabet] : k \in 0..n}

\* a key that may be missing: {} is "no such key", {v} is "the key, with value v"
Maybe(values) == {{}} \cup {{v} : v \in values}
Opt(k, o) == IF o = {} THEN << >> ELSE k :> (CHOOSE v \in o : TRUE)

OptionalKeys == {"about", "services", "testimonials", "faq", "cta", "contact"}

Acme == <<"A", "c", "m", "e">>

\* every optional section missing, an empty mapping, a mapping with a title, or
\* a mapping with content and no title
SectionConfigs ==
    {[k \in {"site", "hero"} \cup {o \in OptionalKeys : opt[o] # "absent"} |->
        CASE k = "site" -> "name" :> Acme
          [] k = "hero" -> "headline" :> <<"H", "i">>
          [] OTHER -> IF opt[k] = "empty" THEN << >>
                      ELSE IF opt[k] = "titled" THEN "title" :> <<"T">>
                      ELSE "description" :> <<"d">>]
     : opt \in [OptionalKeys -> {"absent", "empty", "titled", "untitled"}]}

\* a config with every field of every section set: t in the text fields, l in
\* the fields that are lists of strings
FullConfig(t, l) ==
    ("tagline" :> t)
    @@ ("site" :> (("name" :> t) @@ ("tagline" :> t) @@ ("primary_color" :> t)
                   @@ ("secondary_color" :> t) @@ ("accent_color" :> t)
                   @@ ("background_color" :> t) @@ ("text_color" :> t)))
    @@ ("seo" :> (("title" :> t) @@ ("description" :> t)))
    @@ ("hero" :> (("headline" :> t) @@ ("subheadline" :> t)
                   @@ ("primary_cta" :> (("text" :> t) @@ ("link" :> t)))
                   @@ ("secondary_cta" :> (("text" :> t) @@ ("link" :> t)))
                   @@ ("bullet_points" :> l)))
    @@ ("about" :> (("title" :> t) @@ ("content" :> t) @@ ("highlights" :> l)))
    @@ ("services" :> (("title" :> t) @@ ("description" :> t)
                       @@ ("items" :> <<("name" :> t) @@ ("description" :> t) @@ ("icon" :> t)>>)))
    @@ ("testimonials" :> (("title" :> t)
                           @@ ("items" :> <<("quote" :> t) @@ ("name" :> t) @@ ("role" :> t)>>)))
    @@ ("faq" :> (("title" :> t) @@ ("items" :> <<("question" :> t) @@ ("answer" :> t)>>)))
    @@ ("cta" :> (("headline" :> t) @@ ("subheadline" :> t)
                  @@ ("button" :> (("text" :> t) @@ ("link" :> t)))))
    @@ ("contact" :> (("title" :> t) @@ ("description" :> t) @@ ("phone" :> t)
                      @@ ("whatsapp" :> t) @@ ("email" :> t) @@ ("address" :> t)
                      @@ ("maps_link" :> t) @@ ("hours" :> l)
                      @@ ("social" :> <<("platform" :> t) @@ ("url" :> t)>>)))
    @@ ("footer" :> (("text" :> t) @@ ("links" :> <<("url" :> t) @@ ("label" :> t)>>)))

\* the characters of the texts drawn for the fields
TextAlphabet == {"a", " ", "\n", "&", "<", ">", "\"", "'"}

TextConfigs == {FullConfig(t, <<t>>) : t \in Texts(TextAlphabet, MaxTextLen)}

\* lists of blank and non-blank items
ListConfigs ==
    {FullConfig(<<"a">>, l) : l \in Texts({<< >>, <<" ">>, <<"a">>}, MaxItems)}

\* the characters of the site names drawn
NameAlphabet == {"a", "B", " ", "!"}

SlugConfigs ==
    {Opt("slug", top) @@ ("site" :> (Opt("slug", sub) @@ Opt("name", name)))
     : top \in Maybe({<< >>, <<"t", "o", "p">>}),
       sub \in Maybe({<< >>, <<"s", "u", "b">>}),
       name \in Maybe(Texts(NameAlphabet, MaxSlugLen))}

SeoConfigs ==
    {Opt("tagline", ctag)
       @@ ("site" :> (Opt("name", name) @@ Opt("tagline", stag)))
       @@ ("seo" :> (Opt("title", title) @@ Opt("description", desc)))
     : ctag \in Maybe({<< >>, <<"c", "t">>}),
       name \in Maybe({<< >>, <<"n", "m">>}),
       stag \in Maybe({<< >>, <<"s", "t">>}),
       title \in Maybe({<< >>, <<"S", "T">>}),
       desc \in Maybe({<< >>, <<"S", "D">>})}

LogoConfigs ==
    {"site" :> (("name" :> Acme) @@ Opt("logo", logo))
     : logo \in Maybe({<< >>, <<"l">>, <<"d", "/", "l">>, <<"<", "l">>})}

\* the empty JSON object
EmptyConfigs == {<< >>}

Configs ==
    SectionConfigs \cup TextConfigs \cup ListConfigs \cup SlugConfigs \cup SeoConfigs
        \cup LogoConfigs \cup EmptyConfigs

\* the output files before the run: an index.html of an earlier run, or nothing
InitialFiles(cfg, d) ==
    IF d.index THEN WriteFile(<< >>, IndexPath(ResolveSlug(cfg)), OldDocument) ELSE << >>

\* a logo file can exist only where a logo is configured; an earlier run is
\* drawn for the logo configurations
Disks(cfg) ==
    {d \in [logo : BOOLEAN, css : BOOLEAN, index : BOOLEAN] :
        /\ d.logo => Truthy(GetOrNone(Get(cfg, "site", << >>), "logo"))
        /\ d.index => cfg \in LogoConfigs}

NoCall == [value |-> << >>, default |-> << >>, done |-> TRUE, result |-> << >>]

Init ==
    /\ pc = "start"
    /\ config \in Configs
    /\ disk \in Disks(config)
    /\ files = InitialFiles(config, disk)
    /\ slug = << >>
    /\ dirs = {}
    /\ logo_path = << >>
    /\ sections = << >>
    /\ nav_sections = << >>
    /\ footer_html = << >>
    /\ document = << >>
    /\ fs_log = << >>
    /\ error = ""
    /\ result = << >>
    /\ call = NoCall

Next ==
    \/ GenerateSlug
    \/ EnsureOutputDir
    \/ CopyLogo
    \/ GenerateHero
    \/ GenerateAbout
    \/ GenerateServices
    \/ GenerateTestimonials
    \/ GenerateFaq
    \/ GenerateCta
    \/ GenerateContact
    \/ GenerateFooter
    \/ GenerateDocument
    \/ WriteIndex
    \/ CopyStylesheet

Spec == Init /\ [][Next]_vars

(* slugify on its own *)

\* the characters of the slugify inputs drawn
SlugAlphabet == {"a", "B", "7", " ", "-", "!", EAcute, KelvinSign}

\* "Caf(e-acute) & Bar!!"
CafeBar == <<"C", "a", "f", EAcute, " ", "&", " ", "B", "a", "r", "!", "!">>

SlugInputs == Texts(SlugAlphabet, MaxSlugLen) \cup {CafeBar}

SlugDefaults == {DefaultSlug, << >>, <<"a">>}

SlugInit ==
    /\ pc = "idle"
    /\ call \in [value : SlugInputs, default : SlugDefaults, done : {FALSE}, result : {<< >>}]
    /\ config = << >>
    /\ disk = [logo |-> FALSE, css |-> FALSE, index |-> FALSE]
    /\ files = << >>
    /\ slug = << >>
    /\ dirs = {}
    /\ logo_path = << >>
    /\ sections = << >>
    /\ nav_sections = << >>
    /\ footer_html = << >>
    /\ document = << >>
    /\ fs_log = << >>
    /\ error = ""
    /\ result = << >>

SlugNext == SlugifyCall

SlugSpec == SlugInit /\ [][SlugNext]_vars

-----------------------------------------------------------------------------
(* What the properties read. *)

\* s occurs in text as a contiguous run of tokens
ContainsSeq(text, s) ==
    \E i \in 0..(Len(text) - Len(s)) : SubSeq(text, i + 1, i + Len(s)) = s

\* the fixed order of the page and the anchor id of each section
Canonical == <<"hero", "about", "services", "testimonials", "faq", "cta", "contact">>
AnchorOf ==
    [k \in OptionalKeys \cup {"hero"} |->
        CASE k = "hero" -> "inicio"
          [] k = "about" -> "sobre"
          [] k = "services" -> "servicos"
          [] k = "testimonials" -> "depoimentos"
          [] k = "faq" -> "faq"
          [] k = "cta" -> "cta"
          [] k = "contact" -> "contato"]

CanonicalIndex(k) == CHOOSE i \in DOMAIN Canonical : Canonical[i] = k

\* markup that carries the anchor id="..."
HasAnchor(html, id) == ContainsSeq(html, <<"id=\"", id>>)

\* a link that references the anchor by #id
HasNavLink(html, id) == ContainsSeq(html, <<"<a href=\"#", id, "\">">>)

InNav(id) == \E i \in DOMAIN nav_sections : nav_sections[i].id = <<id>>
InSections(k) ==
    \E j \in DOMAIN sections : sections[j].key = k /\ HasAnchor(sections[j].html, AnchorOf[k])

\* the positions of generate_site after the hero step
AfterHero ==
    {"about", "services", "testimonials", "faq", "cta", "contact", "footer", "document",
     "write", "css", "done"}

ConfiguredLogo == GetOrNone(Get(config, "site", << >>), "logo")

\* the position of an entry of fs_log, 0 if it is not there
LogPosition(op) ==
    IF \E i \in DOMAIN fs_log : fs_log[i] = op
    THEN CHOOSE i \in DOMAIN fs_log : fs_log[i] = op
    ELSE 0

-----------------------------------------------------------------------------
(* C1.  In every state of a run, an optional section has a nav entry if and  *)
(* only if the section map holds its fragment, which carries the same        *)
(* anchor id; from the hero step on, the hero fragment (id inicio) and its   *)
(* nav entry are both there.                                                 *)
C1_NavSectionLockstep ==
    /\ \A k \in OptionalKeys : InNav(AnchorOf[k]) <=> InSections(k)
    /\ \A j \in DOMAIN sections : InSections(sections[j].key)
    /\ pc \in AfterHero => InNav("inicio") /\ InSections("hero")

C1_Witness ==
    /\ pc = "done"
    /\ InSections("services") /\ InNav("servicos")
    /\ ~InSections("about") /\ ~InNav("sobre")

(* C2.  In the written document, a section whose key is missing or maps to   *)
(* an empty mapping has neither its anchor nor a nav link; a section whose   *)
(* key maps to a non-empty mapping with a truthy title has both.             *)
C2_SectionPresence ==
    pc = "done" =>
        \A k \in OptionalKeys :
            LET data == GetOrNone(config, k)
                html == files[result]
            IN  /\ ~Truthy(data) =>
                    ~HasAnchor(html, AnchorOf[k]) /\ ~HasNavLink(html, AnchorOf[k])
                /\ Truthy(data) /\ Truthy(GetOrNone(data, "title")) =>
                    HasAnchor(html, AnchorOf[k]) /\ HasNavLink(html, AnchorOf[k])

C2_Witness ==
    /\ pc = "done"
    /\ "about" \notin DOMAIN config
    /\ "faq" \in DOMAIN config /\ config["faq"] = << >>
    /\ Truthy(GetOrNone(GetOrNone(config, "contact"), "title"))

(* C3.  The section map lists its keys in the canonical order, hero first;   *)
(* the nav list names the same sections in the same order; and the document  *)
(* holds the fragments, taken in canonical order, between nav and footer.    *)
C3_CanonicalOrder ==
    /\ \A i, j \in DOMAIN sections :
          i < j => CanonicalIndex(sections[i].key) < CanonicalIndex(sections[j].key)
    /\ sections # << >> => sections[1].key = "hero"
    /\ Len(nav_sections) = Len(sections)
    /\ \A i \in DOMAIN sections : nav_sections[i].id = <<AnchorOf[sections[i].key]>>
    /\ pc \in {"write", "css", "done"} =>
          ContainsSeq(document,
              <<"</nav>", "<main>">>
                  \o Join([i \in DOMAIN Canonical |->
                              IF \E j \in DOMAIN sections : sections[j].key = Canonical[i]
                              THEN sections[CHOOSE j \in DOMAIN sections :
                                                sections[j].key = Canonical[i]].html
                              ELSE << >>])
                  \o <<"</main>">> \o footer_html \o <<"</body>">>)

C3_Witness ==
    /\ pc = "done"
    /\ [i \in DOMAIN sections |-> sections[i].key] = <<"hero", "services", "faq", "contact">>

(* C4.  A configured logo whose file is missing ends the run in the          *)
(* logo-not-found error; in a run that ended so the two directories exist,   *)
(* nothing was written, and the output files are those of before the run.    *)
(* In a run that succeeded the logo copy (if any) came before the write of   *)
(* index.html, which came before the stylesheet copy (if any).               *)
C4_LogoNotFound ==
    /\ (pc \notin {"start", "ensure", "logo"} /\ Truthy(ConfiguredLogo) /\ ~disk.logo)
          => pc = "failed"
    /\ pc = "failed" =>
          /\ error = "FileNotFoundError: Logo n(U+00E3)o encontrada"
          /\ Truthy(ConfiguredLogo) /\ ~disk.logo
          /\ {<<OutputDir, slug>>, <<OutputDir, slug, <<"assets">>>>} \subseteq dirs
          /\ fs_log = <<"mkdir">>
          /\ files = InitialFiles(config, disk)
          /\ result = << >>
    /\ pc = "done" =>
          /\ Truthy(ConfiguredLogo) <=> LogPosition("copy_logo") > 0
          /\ disk.css <=> LogPosition("copy_css") > 0
          /\ LogPosition("copy_logo") < LogPosition("write_index")
          /\ disk.css => LogPosition("write_index") < LogPosition("copy_css")

C4_Witness ==
    /\ pc = "failed"
    /\ disk.index
    /\ files[IndexPath(slug)] = OldDocument

(* C5.  No raw  & < > " '  that came from a config value is in the document. *)
C5_AllValuesEscaped ==
    pc = "done" => \A i \in DOMAIN document : document[i] \notin SpecialChars

(* C6.  The title is the SEO title, else the site name, else the default;    *)
(* the meta description is the SEO description, else site.tagline, else the  *)
(* default.                                                                  *)
C6_MetadataFallback ==
    pc = "done" =>
        LET site == Get(config, "site", << >>)
            seo == Get(config, "seo", << >>)
            title ==
                IF Truthy(GetOrNone(seo, "title")) THEN seo["title"]
                ELSE IF Truthy(GetOrNone(site, "name")) THEN site["name"]
                ELSE <<"Site de Demonstra(U+00E7)(U+00E3)o">>
            description ==
                IF Truthy(GetOrNone(seo, "description")) THEN seo["description"]
                ELSE IF Truthy(GetOrNone(site, "tagline")) THEN site["tagline"]
                ELSE <<"Cria(U+00E7)(U+00E3)o de sites profissionais.">>
        IN  /\ ContainsSeq(document, <<"<title>">> \o escape(title) \o <<"</title>">>)
            /\ ContainsSeq(document,
                   <<"<meta name=\"description\" content=\"">> \o escape(description) \o <<"\">">>)

(* C7.  html_list writes no list element when no non-blank item is left, so  *)
(* the document holds no empty list of hero bullets, about highlights or     *)
(* contact hours.                                                            *)
C7_NoEmptyList ==
    pc = "done" =>
        \A cls \in {"hero-bullets", "highlight-list", ""} :
            ~ContainsSeq(document, UlOpen(cls) \o <<"</ul>">>)

(* C10.  The slug is the top-level slug if truthy, else site.slug if truthy, *)
(* else slugify(site.name), which is "site" when the name is missing or      *)
(* slugifies to nothing; index.html is written to <output>/<slug>/index.html *)
(* and that path is returned.                                                *)
C10_SlugPrecedence ==
    LET site == Get(config, "site", << >>)
        expected ==
            IF Truthy(GetOrNone(config, "slug")) THEN config["slug"]
            ELSE IF Truthy(GetOrNone(site, "slug")) THEN site["slug"]
            ELSE IF "name" \notin DOMAIN site \/ slugify(site["name"], << >>) = << >>
            THEN <<"s", "i", "t", "e">>
            ELSE slugify(site["name"], << >>)
    IN  /\ pc \notin {"start", "idle"} => slug = expected
        /\ pc \in {"css", "done"} =>
              /\ <<<<"sites">>, expected, <<"index.html">>>> \in DOMAIN files
              /\ files[<<<<"sites">>, expected, <<"index.html">>>>] = document
        /\ pc = "done" => result = <<<<"sites">>, expected, <<"index.html">>>>

C10_Witness ==
    /\ pc = "done"
    /\ Truthy(GetOrNone(config, "slug"))
    /\ Truthy(GetOrNone(Get(config, "site", << >>), "slug"))
    /\ Truthy(GetOrNone(Get(config, "site", << >>), "name"))

-----------------------------------------------------------------------------
(* slugify *)

\* ^[a-z0-9]+(-[a-z0-9]+)*$
MatchesSlugPattern(s) ==
    /\ s # << >>
    /\ \A i \in DOMAIN s : IsSlugChar(s[i]) \/ s[i] = "-"
    /\ s[1] # "-" /\ s[Len(s)] # "-"
    /\ \A i \in 1..(Len(s) - 1) : ~(s[i] = "-" /\ s[i + 1] = "-")

\* an ASCII letter or digit
IsAsciiAlnum(c) ==
    \/ \E i \in DOMAIN LowerLetters : LowerLetters[i] = c
    \/ \E i \in DOMAIN UpperLetters : UpperLetters[i] = c
    \/ c \in Digits

(* C8, as stated: slugify("Caf(e-acute) & Bar!!") is "cafe-bar".             *)
C8_CafeBarAsStated ==
    (call.done /\ call.value = CafeBar /\ call.default = DefaultSlug)
        => call.result = <<"c", "a", "f", "e", "-", "b", "a", "r">>

(* C8, amended: slugify("Caf(e-acute) & Bar!!") is "caf-bar": the accented   *)
(* letter is no character of a-z0-9 and joins the run between the words,     *)
(* which becomes one hyphen; the trailing punctuation is trimmed.            *)
C8_CafeBar ==
    (call.done /\ call.value = CafeBar /\ call.default = DefaultSlug)
        => call.result = <<"c", "a", "f", "-", "b", "a", "r">>

C8_Witness == call.done /\ call.value = CafeBar /\ call.default = DefaultSlug

(* C9, as stated: the result matches the pattern or is the default, and is   *)
(* the default precisely when the input has no ASCII letter or digit.        *)
C9_SlugShapeAsStated ==
    call.done =>
        /\ MatchesSlugPattern(call.result) \/ call.result = call.default
        /\ call.result = call.default
              <=> ~\E i \in DOMAIN call.value : IsAsciiAlnum(call.value[i])

(* C9, amended: when the lower-cased input has a character of a-z0-9 the     *)
(* result matches the pattern, and otherwise it is exactly the default.      *)
C9_SlugShape ==
    call.done =>
        IF \E i \in DOMAIN call.value : IsSlugChar(LowerChar(call.value[i]))
        THEN MatchesSlugPattern(call.result)
        ELSE call.result = call.default

C9_Witness ==
    /\ call.done
    /\ call.value = <<KelvinSign, "!">>
    /\ call.result = <<"k">>

=============================================================================
